---------------------------- MODULE Spec2Model ----------------------------
(***************************************************************************)
(* pgscv: the collection round of an Exporter over the shared descriptor   *)
(* registry (src/prometheus.go) and the push loop (src/app/agent.go).      *)
(*                                                                         *)
(* Time is counted in minutes.  The registry statdesc is the package-level *)
(* list of the source, cut down to one descriptor of every scheduling      *)
(* class (oneshot / per-database, with and without an empty Query, with    *)
(* and without a Schedule, version-sensitive or not, for every Stype).     *)
(***************************************************************************)
EXTENDS Integers, Sequences, FiniteSets, TLC

\* ------------------------------------------------------------------ bounds
MaxTime == 5
MaxDbs == 2
MaxScrapes == 2
MaxInflight == 2
MaxRows == 2

\* ------------------------------------------------------- program constants
stypeDisabled == 0
stypePostgresql == 1
stypePgbouncer == 2
stypeSystem == 3
PG10 == 100000
FiveMinutes == 5

\* The zero time.Time of a Schedule that never fired.
ZeroTime == -1

Versions == {90600, PG10}

\* ------------------------------------------------------------- the registry
\* Static attributes of the descriptors, in registry order.
StatDescInit ==
  << [Name |-> "pg_stat_replication", Stype |-> stypePostgresql,
      Query |-> "pgStatReplicationQuery", collectOneshot |-> TRUE, Interval |-> 0],
     [Name |-> "pg_wal_directory", Stype |-> stypePostgresql,
      Query |-> "", collectOneshot |-> TRUE, Interval |-> FiveMinutes],
     [Name |-> "pg_schema_sequence_fullness", Stype |-> stypePostgresql,
      Query |-> "pgSchemaSequencesFullnessQuery", collectOneshot |-> FALSE, Interval |-> FiveMinutes],
     [Name |-> "node_settings", Stype |-> stypeSystem,
      Query |-> "", collectOneshot |-> FALSE, Interval |-> FiveMinutes],
     [Name |-> "pgbouncer_pool", Stype |-> stypePgbouncer,
      Query |-> "SHOW POOLS", collectOneshot |-> FALSE, Interval |-> 0] >>

Descs == 1..Len(StatDescInit)

\* The services known to the exporter (the package-level Instances).
Instances ==
  [pg1 |-> [InstanceType |-> stypePostgresql, Dbname |-> "postgres"],
   pg2 |-> [InstanceType |-> stypePostgresql, Dbname |-> "postgres"],
   pgb |-> [InstanceType |-> stypePgbouncer, Dbname |-> "pgbouncer"],
   sys |-> [InstanceType |-> stypeSystem, Dbname |-> ""]]

ServiceIDs == DOMAIN Instances

\* Names of the user databases getDBList may return, in order.
DbNames == <<"a", "b", "c", "d">>

DbLists == {SubSeq(DbNames, 1, n) : n \in 0..MaxDbs}

\* The collection rounds that may be in flight at once.
Procs == {1, 2}

VARIABLES
  \* the collector of src/prometheus.go
  statdesc,   \* the registry: per descriptor Stype, Query, collectDone, Schedule
  now,        \* the wall clock
  rnd,        \* per round in flight: the locals of Collect / collectPgMetrics
  firedBy,    \* per descriptor: the service whose round set LastFired
  scrapes     \* the rounds started so far, counted up to MaxScrapes

  \* the push loop of src/app/agent.go
VARIABLES
  pushPc,       \* where runPushMode stands
  jobLabelBase, \* the identity part of the job label
  repo,         \* ServiceRepo.Services: the discovered services
  todo,         \* the services the running pushMetrics has still to visit
  snapshot,     \* the services the running pushMetrics ranges over
  attempts,     \* per service: the pushes attempted in the current tick
  failed,       \* the services whose push failed in the current tick
  afterFail,    \* a push was attempted in the current tick after a failed one
  pushed,       \* every <<service, job label>> pushed so far
  tickC,        \* a tick is waiting in ticker.C
  cancelled,    \* ctx.Done() is closed
  cancelledAt,  \* where runPushMode stood when the context was cancelled
  retVal,       \* what runPushMode returned
  failedBefore  \* a push failed in an earlier tick

collectVars == <<statdesc, now, rnd, firedBy, scrapes>>

pushVars == <<pushPc, jobLabelBase, repo, todo, snapshot, attempts, failed,
              afterFail, pushed, tickC, cancelled, cancelledAt, retVal,
              failedBefore>>

  \* Start of src/app/agent.go
VARIABLES
  startPc,      \* where Start stands
  startRet,     \* what Start returned
  discovered,   \* how discoverServicesOnce ended
  bgLoops,      \* the background discovery and auto-update goroutines run
  inflight,     \* the scrapes the HTTP server is serving
  lateScrape    \* a scrape was accepted after the context was cancelled

appVars == <<startPc, startRet, discovered, bgLoops, inflight, lateScrape>>

  \* the collectors of src/internal/collector
VARIABLES
  pgs,          \* the last call of newPostgresSetting: its arguments and result
  sink          \* the last collect call: its results and the points it sent

pureVars == <<pgs, sink>>

  \* RunBootstrap of src/app/bootstrap.go
VARIABLES
  bootEnv,      \* what the host answers to the steps of this bootstrap
  bootPc,       \* the step RunBootstrap is about to run
  bootRet,      \* its return value, -1 until it returns
  bootRan,      \* the steps it has run, in order
  bootFs        \* the files and the service the bootstrap has touched

bootVars == <<bootEnv, bootPc, bootRet, bootRan, bootFs>>

  \* Exporter.Collect's loop over the package-level Instances
VARIABLES
  instList,     \* the global list Instances: the ServiceIds, in order
  scan          \* one Collect: its exporter, loop bound, index, and what it saw

repoVars == <<instList, scan>>

  \* the host runPushMode runs on
VARIABLES
  hostId        \* what /etc/machine-id and os.Hostname are, once looked at

labelVars == <<hostId>>

  \* what a round has met so far, kept for the round in progress
VARIABLES
  hist          \* the databases that failed to connect, those visited, the
                \* descriptors whose query failed and those executed after that

histVars == <<hist>>

otherVars == <<appVars, pureVars, bootVars, repoVars, labelVars>>

\* What the steps of the collector, and of the push loop, leave alone.
notCollect == <<pushVars, otherVars>>

notPush == <<collectVars, otherVars, histVars>>

notApp == <<collectVars, pushVars, pureVars, bootVars, repoVars, labelVars,
           histVars>>

notPure == <<collectVars, pushVars, appVars, bootVars, repoVars, labelVars,
            histVars>>

notBoot == <<collectVars, pushVars, appVars, pureVars, repoVars, labelVars,
            histVars>>

notRepo == <<collectVars, pushVars, appVars, pureVars, bootVars, labelVars,
            histVars>>

notLabel == <<collectVars, pushVars, appVars, pureVars, bootVars, repoVars,
             histVars>>

vars == <<collectVars, pushVars, otherVars, histVars>>

\* The rounds started so far, counted up to MaxScrapes.
CountScrape == IF scrapes < MaxScrapes THEN scrapes + 1 ELSE scrapes

\* ------------------------------------------------------------------ Schedule
\* The Schedule embedded in StatDesc: Interval, Active, LastFired.
useSchedule == TRUE

ActivateSchedule(desc) == [desc EXCEPT !.Active = TRUE]

IsScheduleActive(desc) == desc.Active

IsScheduleExpired(desc) ==
  desc.LastFired = ZeroTime \/ now - desc.LastFired >= desc.Interval

ScheduleUpdateExpired(desc) ==
  IF desc.Active THEN [desc EXCEPT !.LastFired = now] ELSE desc

\* ------------------------------------------------------------ the exporter
\* NewExporter activates the schedule of the descriptors of its service type.
NewExporter(descs, itype) ==
  [d \in DOMAIN descs |->
     IF itype = descs[d].Stype /\ useSchedule /\ descs[d].Interval # 0
     THEN ActivateSchedule(descs[d]) ELSE descs[d]]

\* adjustQueries adjusts queries depending on PostgreSQL version.
adjustQueries(descs, pgVersion) ==
  [d \in DOMAIN descs |->
     CASE descs[d].Name = "pg_stat_replication" /\ pgVersion < PG10 ->
            [descs[d] EXCEPT !.Query = "pgStatReplicationQuery96"]
       [] descs[d].Name = "pg_replication_slots" /\ pgVersion < PG10 ->
            [descs[d] EXCEPT !.Query = "pgReplicationSlotsQuery96"]
       [] descs[d].Name = "pg_wal_directory" /\ pgVersion < PG10 ->
            [descs[d] EXCEPT !.Query = "pgStatWalSizeQuery96"]
       [] descs[d].Name = "pg_schema_sequence_fullness" /\ pgVersion < PG10 ->
            [descs[d] EXCEPT !.Stype = stypeDisabled]
       [] OTHER -> descs[d]]

\* The locals of a round that is not running.  conn: a connection opened by the
\* round is open; sent: the pid the round sent on chRemoveInstance; execCnt,
\* okCnt: how often the round executed a descriptor, and how often with
\* metrics collected; due: the descriptors whose schedule let them run when the
\* round started.  After the return they tell what the round left behind.
IdleRound ==
  [pc |-> "idle", svc |-> "none", itype |-> stypeDisabled, version |-> 0,
   dblist |-> <<>>, dbIdx |-> 0, conn |-> FALSE, sent |-> "none",
   execCnt |-> [d \in Descs |-> 0], okCnt |-> [d \in Descs |-> 0], due |-> {}]

\* The descriptors whose schedule lets them run now.
DueNow == {d \in Descs :
             ~(IsScheduleActive(statdesc[d]) /\ ~IsScheduleExpired(statdesc[d]))}

\* Nothing met yet.
NoHist == [connFailed |-> {}, visited |-> {}, qerr |-> {}, again |-> {}]

Init ==
  /\ statdesc =
       NewExporter(
         NewExporter(
           NewExporter(
             [d \in Descs |->
                [Name |-> StatDescInit[d].Name, Stype |-> StatDescInit[d].Stype,
                 Query |-> StatDescInit[d].Query,
                 collectOneshot |-> StatDescInit[d].collectOneshot,
                 collectDone |-> FALSE, Interval |-> StatDescInit[d].Interval,
                 Active |-> FALSE, LastFired |-> ZeroTime]],
             stypePostgresql),
           stypePgbouncer),
         stypeSystem)
  /\ now = 0
  /\ rnd = [p \in Procs |-> IdleRound]
  /\ firedBy = [d \in Descs |-> "none"]
  /\ scrapes = 0
  /\ pushPc = "init"
  /\ jobLabelBase = ""
  /\ repo = {}
  /\ todo = {}
  /\ snapshot = {}
  /\ attempts = [s \in ServiceIDs |-> 0]
  /\ failed = {}
  /\ afterFail = FALSE
  /\ pushed = {}
  /\ tickC = FALSE
  /\ cancelled = FALSE
  /\ cancelledAt = "none"
  /\ retVal = "none"
  /\ failedBefore = FALSE
  /\ startPc = "init"
  /\ startRet = "none"
  /\ discovered = "none"
  /\ bgLoops = FALSE
  /\ inflight = 0
  /\ lateScrape = FALSE
  /\ pgs = [called |-> FALSE]
  /\ sink = [called |-> FALSE]
  /\ bootEnv = [chosen |-> FALSE]
  /\ bootPc = "init"
  /\ bootRet = -1
  /\ bootRan = << >>
  /\ bootFs = [name |-> "", self |-> TRUE, envFile |-> "", unitEnvFile |-> "",
               started |-> FALSE]
  /\ instList = <<"pg1", "sys">>
  /\ scan = [pc |-> "idle"]
  /\ hostId = [known |-> FALSE]
  /\ hist = NoHist

\* The clock advances by a minute; a round takes less than that.
Tick ==
  /\ now < MaxTime
  /\ \A p \in Procs : rnd[p].pc = "idle"
  /\ now' = now + 1
  /\ UNCHANGED <<statdesc, rnd, firedBy>>
  /\ scrapes' = scrapes
  /\ UNCHANGED notCollect

\* ------------------------------------------------ collectPgMetrics: the probe
StartRound(p, s) ==
  [IdleRound EXCEPT !.svc = s, !.itype = Instances[s].InstanceType, !.due = DueNow]

\* CreateConn of the probe fails: return 0.
ProbeConnFail(p, s) ==
  /\ rnd[p].pc = "idle"
  /\ Instances[s].InstanceType = stypePostgresql
  /\ rnd' = [rnd EXCEPT ![p] = IdleRound]
  /\ UNCHANGED <<statdesc, now, firedBy>>
  /\ scrapes' = CountScrape
  /\ UNCHANGED notCollect

\* PQstatus fails: the removal of the instance is requested, return 0.
ProbeStatusFail(p, s) ==
  /\ rnd[p].pc = "idle"
  /\ Instances[s].InstanceType = stypePostgresql
  /\ rnd' = [rnd EXCEPT ![p] =
               [IdleRound EXCEPT !.conn = TRUE, !.sent = s]]
  /\ UNCHANGED <<statdesc, now, firedBy>>
  /\ scrapes' = CountScrape
  /\ UNCHANGED notCollect

\* A faulty probe that adjusts the queries with the version it failed to read.
ProbeVersionFailAdjusted(p, s) ==
  /\ rnd[p].pc = "idle"
  /\ Instances[s].InstanceType = stypePostgresql
  /\ rnd' = [rnd EXCEPT ![p] = [IdleRound EXCEPT !.conn = TRUE]]
  /\ statdesc' = adjustQueries(statdesc, 0)
  /\ UNCHANGED <<now, firedBy>>
  /\ scrapes' = CountScrape
  /\ UNCHANGED notCollect

\* The version query fails: return 0.
ProbeVersionFail(p, s) ==
  /\ rnd[p].pc = "idle"
  /\ Instances[s].InstanceType = stypePostgresql
  /\ rnd' = [rnd EXCEPT ![p] = [IdleRound EXCEPT !.conn = TRUE]]
  /\ UNCHANGED <<statdesc, now, firedBy>>
  /\ scrapes' = CountScrape
  /\ UNCHANGED notCollect

\* The probe succeeds: version read, queries adjusted, database list read
\* (the default database when getDBList fails), probe connection closed.
ProbeOk(p, s) ==
  /\ rnd[p].pc = "idle"
  /\ Instances[s].InstanceType = stypePostgresql
  /\ \E v \in Versions, dbs \in DbLists \cup {<<Instances[s].Dbname>>} :
       /\ statdesc' = adjustQueries(statdesc, v)
       /\ rnd' = [rnd EXCEPT ![p] =
                    [StartRound(p, s) EXCEPT !.pc = "reset", !.version = v,
                                             !.dblist = dbs]]
  /\ UNCHANGED <<now, firedBy>>
  /\ scrapes' = CountScrape
  /\ UNCHANGED notCollect

\* A pgbouncer service has the single database "pgbouncer".
ProbePgbouncer(p, s) ==
  /\ rnd[p].pc = "idle"
  /\ Instances[s].InstanceType = stypePgbouncer
  /\ rnd' = [rnd EXCEPT ![p] =
               [StartRound(p, s) EXCEPT !.pc = "reset", !.dblist = <<"pgbouncer">>]]
  /\ UNCHANGED <<statdesc, now, firedBy>>
  /\ scrapes' = CountScrape
  /\ UNCHANGED notCollect

\* Before the round all collectDone flags are reset.
ResetDone(p) ==
  /\ rnd[p].pc = "reset"
  /\ statdesc' = [d \in Descs |-> [statdesc[d] EXCEPT !.collectDone = FALSE]]
  /\ rnd' = [rnd EXCEPT ![p].pc = "dbloop", ![p].dbIdx = 1]
  /\ UNCHANGED <<now, firedBy>>
  /\ scrapes' = scrapes
  /\ UNCHANGED notCollect

\* ----------------------------------------------------------------- getDBStat
\* The descriptor is of another service type.
TypeSkip(desc, itype) == desc.Stype # itype

\* A faulty getDBStat that never looks at the schedule.
ScheduleSkipNever(desc) == FALSE

\* Check the schedule, skip if not expired.
ScheduleSkip(desc) == IsScheduleActive(desc) /\ ~IsScheduleExpired(desc)

\* Skip collecting if statistics is oneshot and already collected.
OneshotSkip(desc) == desc.collectDone /\ desc.collectOneshot

Skipped(desc, itype) ==
  TypeSkip(desc, itype) \/ ScheduleSkip(desc) \/ OneshotSkip(desc)

\* What the execution of a descriptor may come to: for an empty query,
\* getPostgresDirInfo returns nil or an error; for a query, conn.Query fails,
\* returns no rows, or returns rows.
Outcomes(desc) ==
  IF desc.Query = "" THEN {"ok", "error"} ELSE {"rows", "norows", "error"}

\* A faulty getDBStat that stamps the schedule as soon as rows came back.
AfterStatStamped(desc, out) ==
  CASE out = "ok" -> [ScheduleUpdateExpired(desc) EXCEPT !.collectDone = TRUE]
    [] out = "rows" -> [ScheduleUpdateExpired(desc) EXCEPT !.collectDone = TRUE]
    [] OTHER -> desc

\* The descriptor after its loop body ran with the given outcome.
AfterStat(desc, out) ==
  CASE out = "ok" -> [ScheduleUpdateExpired(desc) EXCEPT !.collectDone = TRUE]
    [] out = "rows" -> [desc EXCEPT !.collectDone = TRUE]
    [] OTHER -> desc

\* getDBStat over the registry: every descriptor that is not skipped is
\* executed, with outcome out[d].
getDBStat(descs, itype, out) ==
  [d \in DOMAIN descs |->
     IF Skipped(descs[d], itype) THEN descs[d] ELSE AfterStat(descs[d], out[d])]

\* The descriptors getDBStat executes, and those it marks collected.
RunSet(itype) == {d \in Descs : ~Skipped(statdesc[d], itype)}

Collected(run, out) == {d \in run : out[d] \in {"ok", "rows"}}

\* ------------------------------------------- collectPgMetrics: the database loop
\* A faulty loop that gives up the round at the first database that refuses.
DbConnFailBreak(p) ==
  /\ rnd[p].pc = "dbloop"
  /\ rnd[p].dbIdx <= Len(rnd[p].dblist)
  /\ rnd' = [rnd EXCEPT ![p].dbIdx = Len(rnd[p].dblist) + 1]
  /\ UNCHANGED <<statdesc, now, firedBy>>
  /\ scrapes' = scrapes
  /\ UNCHANGED notCollect

\* CreateConn to the next database fails: the database is skipped.
DbConnFail(p) ==
  /\ rnd[p].pc = "dbloop"
  /\ rnd[p].dbIdx <= Len(rnd[p].dblist)
  /\ rnd' = [rnd EXCEPT ![p].dbIdx = @ + 1]
  /\ UNCHANGED <<statdesc, now, firedBy>>
  /\ scrapes' = scrapes
  /\ UNCHANGED notCollect

\* What the executions of getDBStat in the next database may come to.
VisitOutcomes(p) ==
  {out \in [RunSet(rnd[p].itype) -> {"ok", "rows", "norows", "error"}] :
     \A d \in RunSet(rnd[p].itype) : out[d] \in Outcomes(statdesc[d])}

\* One database of the list: connect, getDBStat, close.
VisitDbOut(p, out) ==
  LET r == rnd[p]
      run == RunSet(r.itype)
  IN
  /\ r.pc = "dbloop"
  /\ r.dbIdx <= Len(r.dblist)
  /\ statdesc' = getDBStat(statdesc, r.itype, out)
  /\ rnd' = [rnd EXCEPT ![p] =
               [r EXCEPT !.dbIdx = @ + 1,
                         !.execCnt = [d \in Descs |->
                                        IF d \in run THEN @[d] + 1 ELSE @[d]],
                         !.okCnt = [d \in Descs |->
                                      IF d \in Collected(run, out)
                                      THEN @[d] + 1 ELSE @[d]]]]
  /\ firedBy' = [d \in Descs |->
                   IF d \in run /\ out[d] = "ok" /\ statdesc[d].Active
                   THEN r.svc ELSE firedBy[d]]
  /\ now' = now
  /\ scrapes' = scrapes
  /\ UNCHANGED notCollect

VisitDb(p) == \E out \in VisitOutcomes(p) : VisitDbOut(p, out)

\* The database list is exhausted.
EndDbLoop(p) ==
  /\ rnd[p].pc = "dbloop"
  /\ rnd[p].dbIdx > Len(rnd[p].dblist)
  /\ rnd' = [rnd EXCEPT ![p].pc = "sched"]
  /\ UNCHANGED <<statdesc, now, firedBy>>
  /\ scrapes' = scrapes
  /\ UNCHANGED notCollect

\* After collecting, update expired schedules; collectPgMetrics returns.
UpdateSchedules(p) ==
  /\ rnd[p].pc = "sched"
  /\ statdesc' = [d \in Descs |->
                    IF statdesc[d].collectDone
                    THEN ScheduleUpdateExpired(statdesc[d]) ELSE statdesc[d]]
  /\ firedBy' = [d \in Descs |->
                   IF statdesc[d].collectDone /\ statdesc[d].Active
                   THEN rnd[p].svc ELSE firedBy[d]]
  /\ rnd' = [rnd EXCEPT ![p] = IdleRound]
  /\ now' = now
  /\ scrapes' = scrapes
  /\ UNCHANGED notCollect

\* ------------------------------------------------------ collectSystemMetrics
SystemDue(d) ==
  statdesc[d].Stype = stypeSystem /\ ~ScheduleSkip(statdesc[d])

collectSystemMetrics(p, s) ==
  /\ rnd[p].pc = "idle"
  /\ Instances[s].InstanceType = stypeSystem
  /\ statdesc' = [d \in Descs |->
                    IF SystemDue(d) THEN ScheduleUpdateExpired(statdesc[d])
                    ELSE statdesc[d]]
  /\ firedBy' = [d \in Descs |->
                   IF SystemDue(d) /\ statdesc[d].Active THEN s ELSE firedBy[d]]
  /\ rnd' = [rnd EXCEPT ![p] = IdleRound]
  /\ now' = now
  /\ scrapes' = CountScrape
  /\ UNCHANGED notCollect

\* --------------------------------------------------------- Exporter.Collect
\* One step of the round run by p.
Collect(p) ==
  \/ \E s \in ServiceIDs :
       \/ ProbeConnFail(p, s)
       \/ ProbeStatusFail(p, s)
       \/ ProbeVersionFail(p, s)
       \/ ProbeOk(p, s)
       \/ ProbePgbouncer(p, s)
       \/ collectSystemMetrics(p, s)
  \/ ResetDone(p)
  \/ DbConnFail(p)
  \/ VisitDb(p)
  \/ EndDbLoop(p)
  \/ UpdateSchedules(p)

\* Push dispatch: the services are collected one after the other.
Next == (Tick \/ Collect(1)) /\ UNCHANGED histVars

Spec == Init /\ [][Next]_vars

\* Pull dispatch: the collectors of one scrape, and overlapping scrapes, run
\* concurrently, within the same minute.
PullStep(p) ==
  /\ rnd[p].pc = "idle" => scrapes < MaxScrapes
  /\ p = 2 /\ rnd[2].pc = "idle" => rnd[1].pc # "idle"
  /\ Collect(p)

NextPull == (\E p \in Procs : PullStep(p)) /\ UNCHANGED histVars

\* The rounds of one relational service and one pooler, one after the other,
\* with what each round has met so far.
RoundServices == {"pg1", "pgb"}

RoundTick == Tick /\ UNCHANGED histVars

RoundProbe ==
  /\ \E s \in RoundServices :
       \/ ProbeConnFail(1, s)
       \/ ProbeStatusFail(1, s)
       \/ ProbeVersionFail(1, s)
       \/ ProbeOk(1, s)
       \/ ProbePgbouncer(1, s)
  /\ hist' = NoHist

RoundReset == ResetDone(1) /\ UNCHANGED histVars

RoundConnFail ==
  /\ DbConnFail(1)
  /\ hist' = [hist EXCEPT !.connFailed = @ \cup {rnd[1].dbIdx}]

RoundVisit ==
  \E out \in VisitOutcomes(1) :
    /\ VisitDbOut(1, out)
    /\ hist' = [hist EXCEPT
                  !.visited = @ \cup {rnd[1].dbIdx},
                  !.qerr = @ \cup {d \in DOMAIN out :
                                     statdesc[d].Query # "" /\ out[d] = "error"},
                  !.again = @ \cup (DOMAIN out \cap hist.qerr)]

RoundEnd == (EndDbLoop(1) \/ UpdateSchedules(1)) /\ UNCHANGED histVars

NextRound ==
  \/ RoundTick
  \/ RoundProbe
  \/ RoundReset
  \/ RoundConnFail
  \/ RoundVisit
  \/ RoundEnd

SpecRound == Init /\ [][NextRound]_vars

SpecPull == Init /\ [][NextPull]_vars

\* ------------------------------------------------------ the job label (push)
\* What /etc/machine-id may be: missing, unreadable, or a file with content.
MachineIdFiles ==
  { [exists |-> FALSE, readable |-> FALSE, content |-> <<>>],
    [exists |-> TRUE, readable |-> FALSE, content |-> <<>>],
    [exists |-> TRUE, readable |-> TRUE, content |-> <<"4", "e">>],
    [exists |-> TRUE, readable |-> TRUE, content |-> <<" ", "4", "e", "\n">>] }

\* What os.Hostname may return.
Hostnames == { [name |-> "", err |-> TRUE], [name |-> "db1", err |-> FALSE] }

WhiteSpace == {" ", "\t", "\n"}

RECURSIVE TrimLeft(_)
TrimLeft(s) ==
  IF s # <<>> /\ Head(s) \in WhiteSpace THEN TrimLeft(Tail(s)) ELSE s

RECURSIVE TrimRight(_)
TrimRight(s) ==
  IF s # <<>> /\ s[Len(s)] \in WhiteSpace
  THEN TrimRight(SubSeq(s, 1, Len(s) - 1)) ELSE s

\* strings.TrimSpace
TrimSpace(s) == TrimRight(TrimLeft(s))

\* string(content): the characters put together.
RECURSIVE String(_)
String(s) == IF s = <<>> THEN "" ELSE Head(s) \o String(Tail(s))

\* fmt.Sprintf("%x", md5.Sum(hostname)): a digest that tells hostnames apart.
Md5Hex(hostname) == "md5:" \o hostname

getLabelByMachineID(file) ==
  IF ~file.exists \/ ~file.readable
  THEN [val |-> "", err |-> TRUE]
  ELSE [val |-> String(TrimSpace(file.content)), err |-> FALSE]

getLabelByHostname(host) ==
  IF host.err THEN [val |-> "", err |-> TRUE]
  ELSE [val |-> Md5Hex(host.name), err |-> FALSE]

\* A faulty getJobLabelBase without the fallback to the hostname.
getJobLabelBaseNoFallback(file, host) == getLabelByMachineID(file)

getJobLabelBase(file, host) ==
  IF ~getLabelByMachineID(file).err
  THEN getLabelByMachineID(file) ELSE getLabelByHostname(host)

\* A faulty label that leaves the service out.
JobLabelNoService(labelBase, sid) == "db_system_" \o labelBase

\* fmt.Sprintf("db_system_%s_%s", labelBase, service.ServiceID)
JobLabel(labelBase, sid) == "db_system_" \o labelBase \o "_" \o sid

\* ------------------------------------------------------------- runPushMode
\* The job label base is computed; on error runPushMode returns it, else the
\* ticker is created and the loop entered.
RunPushMode ==
  /\ pushPc = "init"
  /\ \E file \in MachineIdFiles, host \in Hostnames :
       /\ hostId.known => file = hostId.file /\ host = hostId.host
       /\ IF getJobLabelBase(file, host).err
          THEN /\ pushPc' = "returned"
               /\ retVal' = "err"
               /\ jobLabelBase' = jobLabelBase
          ELSE /\ pushPc' = "tick"
               /\ retVal' = retVal
               /\ jobLabelBase' = getJobLabelBase(file, host).val
  /\ UNCHANGED <<repo, todo, snapshot, attempts, failed, afterFail, pushed,
                 tickC, cancelled, cancelledAt, failedBefore>>
  /\ UNCHANGED notPush

\* pushMetrics is called: the range expression repo.Services is evaluated.
BeginPush ==
  /\ pushPc = "tick"
  /\ pushPc' = "push"
  /\ todo' = repo
  /\ snapshot' = repo
  /\ attempts' = [s \in ServiceIDs |-> 0]
  /\ failed' = {}
  /\ afterFail' = FALSE
  /\ failedBefore' = (failedBefore \/ failed # {})
  /\ UNCHANGED <<jobLabelBase, repo, pushed, tickC, cancelled, cancelledAt,
                 retVal>>
  /\ UNCHANGED notPush

\* A faulty pushMetrics that gives up the tick when a push fails.
AfterAddAbort(outcome, rest) == IF outcome = "error" THEN {} ELSE rest

\* The services left to visit after pusher.Add() of one returned: an error is
\* only logged.
AfterAdd(outcome, rest) == rest

\* One iteration of the loop of pushMetrics: label, pusher, Add.
PushOne ==
  /\ pushPc = "push"
  /\ \E s \in todo, outcome \in {"ok", "error"} :
       /\ attempts' = [attempts EXCEPT ![s] = @ + 1]
       /\ pushed' = pushed \cup {<<s, JobLabel(jobLabelBase, s)>>}
       /\ failed' = IF outcome = "error" THEN failed \cup {s} ELSE failed
       /\ afterFail' = (afterFail \/ failed # {})
       /\ todo' = AfterAdd(outcome, todo \ {s})
  /\ UNCHANGED <<pushPc, jobLabelBase, repo, snapshot, tickC, cancelled,
                 cancelledAt, retVal, failedBefore>>
  /\ UNCHANGED notPush

\* The range is exhausted: pushMetrics returns, runPushMode waits in select.
EndPush ==
  /\ pushPc = "push"
  /\ todo = {}
  /\ pushPc' = "select"
  /\ UNCHANGED <<jobLabelBase, repo, todo, snapshot, attempts, failed,
                 afterFail, pushed, tickC, cancelled, cancelledAt, retVal,
                 failedBefore>>
  /\ UNCHANGED notPush

\* case <-ticker.C: continue
SelectTick ==
  /\ pushPc = "select"
  /\ tickC
  /\ tickC' = FALSE
  /\ pushPc' = "tick"
  /\ UNCHANGED <<jobLabelBase, repo, todo, snapshot, attempts, failed,
                 afterFail, pushed, cancelled, cancelledAt, retVal,
                 failedBefore>>
  /\ UNCHANGED notPush

\* A faulty runPushMode that returns as soon as the context is cancelled, also
\* in the middle of pushMetrics.
SelectCancelMidTick ==
  /\ pushPc \in {"push", "select"}
  /\ cancelled
  /\ pushPc' = "returned"
  /\ retVal' = "nil"
  /\ UNCHANGED <<jobLabelBase, repo, todo, snapshot, attempts, failed,
                 afterFail, pushed, tickC, cancelled, cancelledAt,
                 failedBefore>>
  /\ UNCHANGED notPush

\* case <-ctx.Done(): ticker.Stop(), return nil
SelectCancel ==
  /\ pushPc = "select"
  /\ cancelled
  /\ pushPc' = "returned"
  /\ retVal' = "nil"
  /\ UNCHANGED <<jobLabelBase, repo, todo, snapshot, attempts, failed,
                 afterFail, pushed, tickC, cancelled, cancelledAt,
                 failedBefore>>
  /\ UNCHANGED notPush

\* The ticker sends on its channel of capacity one; a tick that finds the
\* channel full is dropped.
TickerFire ==
  /\ pushPc \in {"tick", "push", "select"}
  /\ tickC' = TRUE
  /\ UNCHANGED <<pushPc, jobLabelBase, repo, todo, snapshot, attempts, failed,
                 afterFail, pushed, cancelled, cancelledAt, retVal,
                 failedBefore>>
  /\ UNCHANGED notPush

\* The root context is cancelled.
Cancel ==
  /\ ~cancelled
  /\ cancelled' = TRUE
  /\ cancelledAt' = pushPc
  /\ UNCHANGED <<pushPc, jobLabelBase, repo, todo, snapshot, attempts, failed,
                 afterFail, pushed, tickC, retVal, failedBefore>>
  /\ UNCHANGED notPush

\* The services discovery may find on the host: one of every kind.
Discoverable == {"pg1", "pgb", "sys"}

\* Discovery replaces the service list.
Discovery ==
  /\ \E services \in SUBSET Discoverable : repo' = services
  /\ UNCHANGED <<pushPc, jobLabelBase, todo, snapshot, attempts, failed,
                 afterFail, pushed, tickC, cancelled, cancelledAt, retVal,
                 failedBefore>>
  /\ UNCHANGED notPush

NextPush ==
  \/ RunPushMode
  \/ BeginPush
  \/ PushOne
  \/ EndPush
  \/ SelectTick
  \/ SelectCancel
  \/ TickerFire
  \/ Cancel
  \/ Discovery

SpecPush == Init /\ [][NextPush]_vars

\* The push loop on a host whose machine-id file and hostname are known.
HostIdentity ==
  /\ ~hostId.known
  /\ pushPc = "init"
  /\ \E file \in MachineIdFiles, host \in Hostnames :
       hostId' = [known |-> TRUE, file |-> file, host |-> host]
  /\ UNCHANGED notLabel

LabelStep == hostId.known /\ NextPush

NextLabel == HostIdentity \/ LabelStep

SpecLabel == Init /\ [][NextLabel]_vars

\* pusher.Add() returns and the loop goes on; select picks at random among the
\* ready cases, so a ready ctx.Done() is not passed over for ever.
SpecPushFair ==
  /\ SpecPush
  /\ WF_vars(BeginPush)
  /\ WF_vars(PushOne)
  /\ WF_vars(EndPush)
  /\ SF_vars(SelectCancel)

\* --------------------------------------------------------------------- Start
RuntimeModes == {"pull", "push", "unknown"}

\* discoverServicesOnce; on error Start returns it, else the background
\* discovery and auto-update goroutines are started.
StartDiscover ==
  /\ startPc = "init"
  /\ \E ok \in BOOLEAN :
       IF ok
       THEN /\ discovered' = "ok"
            /\ bgLoops' = TRUE
            /\ startPc' = "dispatch"
            /\ startRet' = startRet
       ELSE /\ discovered' = "failed"
            /\ bgLoops' = bgLoops
            /\ startPc' = "returned"
            /\ startRet' = "err"
  /\ UNCHANGED <<inflight, lateScrape>>
  /\ UNCHANGED notApp

\* switch c.RuntimeMode
StartDispatch ==
  /\ startPc = "dispatch"
  /\ \E mode \in RuntimeModes :
       IF mode = "unknown"
       THEN startPc' = "returned" /\ startRet' = "nil"
       ELSE startPc' = mode /\ startRet' = startRet
  /\ UNCHANGED <<discovered, bgLoops, inflight, lateScrape>>
  /\ UNCHANGED notApp

\* runPullMode: http.ListenAndServe returns only with an error.
ListenFail ==
  /\ startPc = "pull"
  /\ startPc' = "returned"
  /\ startRet' = "err"
  /\ UNCHANGED <<discovered, bgLoops, inflight, lateScrape>>
  /\ UNCHANGED notApp

\* The server accepts a scrape of /metrics.
AcceptScrape ==
  /\ startPc = "pull"
  /\ inflight < MaxInflight
  /\ inflight' = inflight + 1
  /\ lateScrape' = (lateScrape \/ cancelled)
  /\ UNCHANGED <<startPc, startRet, discovered, bgLoops>>
  /\ UNCHANGED notApp

\* A scrape is answered.
FinishScrape ==
  /\ inflight > 0
  /\ inflight' = inflight - 1
  /\ UNCHANGED <<startPc, startRet, discovered, bgLoops, lateScrape>>
  /\ UNCHANGED notApp

\* runPushMode runs inside Start.
PushStep == startPc = "push" /\ NextPush

\* return runPushMode(ctx, c, serviceRepo)
StartPushReturn ==
  /\ startPc = "push"
  /\ pushPc = "returned"
  /\ startPc' = "returned"
  /\ startRet' = retVal
  /\ UNCHANGED <<discovered, bgLoops, inflight, lateScrape>>
  /\ UNCHANGED notApp

NextStart ==
  \/ StartDiscover
  \/ StartDispatch
  \/ ListenFail
  \/ AcceptScrape
  \/ FinishScrape
  \/ PushStep
  \/ StartPushReturn
  \/ Cancel

SpecStart == Init /\ [][NextStart]_vars

\* ------------------------------------------------------ postgres settings
\* Numbers are kept exact as num / den * 2^exp2; the rounding of float64 is
\* not modelled, nor is the text of the setting newPostgresSetting formats.
Num(n) == [num |-> n, den |-> 1, exp2 |-> 0]

\* 1024 and 0.001
Kibi == [num |-> 1, den |-> 1, exp2 |-> 10]

Milli == [num |-> 1, den |-> 1000, exp2 |-> 0]

Mul(a, b) ==
  [num |-> a.num * b.num, den |-> a.den * b.den, exp2 |-> a.exp2 + b.exp2]

DigitChars == <<"0", "1", "2", "3", "4", "5", "6", "7", "8", "9">>

IsDigit(c) == \E i \in 1..Len(DigitChars) : DigitChars[i] = c

DigitVal(c) == (CHOOSE i \in 1..Len(DigitChars) : DigitChars[i] = c) - 1

\* [a-z], case-insensitive: the letters that occur in the units tried.
LetterChars ==
  {"B", "G", "K", "M", "T", "b", "d", "h", "i", "k", "m", "n", "o", "s"}

RECURSIVE Atoi(_)
Atoi(s) ==
  IF s = <<>> THEN 0
  ELSE Atoi(SubSeq(s, 1, Len(s) - 1)) * 10 + DigitVal(s[Len(s)])

RECURSIVE LeadingDigits(_)
LeadingDigits(s) ==
  IF s # <<>> /\ IsDigit(Head(s)) THEN <<Head(s)>> \o LeadingDigits(Tail(s))
  ELSE <<>>

RECURSIVE Pow10(_)
Pow10(n) == IF n = 0 THEN 1 ELSE 10 * Pow10(n - 1)

\* strconv.ParseFloat on a decimal numeral with an optional sign and fraction.
ParseFloat(s) ==
  LET neg == s # <<>> /\ Head(s) = "-"
      body == IF neg THEN Tail(s) ELSE s
      ip == LeadingDigits(body)
      rest == SubSeq(body, Len(ip) + 1, Len(body))
      frac == IF rest # <<>> /\ Head(rest) = "." THEN Tail(rest) ELSE <<>>
      valid == /\ ip # <<>> \/ frac # <<>>
               /\ rest = <<>> \/ Head(rest) = "."
               /\ \A i \in 1..Len(frac) : IsDigit(frac[i])
  IN IF ~valid THEN [val |-> Num(0), err |-> TRUE]
     ELSE [val |-> [num |-> (IF neg THEN -1 ELSE 1) * Atoi(ip \o frac),
                    den |-> Pow10(Len(frac)), exp2 |-> 0],
           err |-> FALSE]

\* parseUnit normalizes pg_settings.unit to a factor and a base unit.
parseUnit(unit) ==
  LET digits == LeadingDigits(unit)
      letters == SubSeq(unit, Len(digits) + 1, Len(unit))
      matched == /\ letters # <<>>
                 /\ \A i \in 1..Len(letters) : letters[i] \in LetterChars
      factor == IF digits # <<>> THEN Num(Atoi(digits)) ELSE Num(1)
      suffix == String(letters)
      failed0 == [factor |-> Num(1), unit |-> "", err |-> TRUE]
  IN IF unit = <<>> THEN [factor |-> Num(1), unit |-> "", err |-> FALSE]
     ELSE IF ~matched THEN failed0
     ELSE CASE suffix = "B" ->
                 [factor |-> Mul(factor, Num(1)), unit |-> "bytes", err |-> FALSE]
            [] suffix = "kB" ->
                 [factor |-> Mul(factor, Kibi), unit |-> "bytes", err |-> FALSE]
            [] suffix = "MB" ->
                 [factor |-> Mul(Mul(factor, Kibi), Kibi), unit |-> "bytes",
                  err |-> FALSE]
            [] suffix = "GB" ->
                 [factor |-> Mul(Mul(Mul(factor, Kibi), Kibi), Kibi),
                  unit |-> "bytes", err |-> FALSE]
            [] suffix = "TB" ->
                 [factor |-> Mul(Mul(Mul(Mul(factor, Kibi), Kibi), Kibi), Kibi),
                  unit |-> "bytes", err |-> FALSE]
            [] suffix = "ms" ->
                 [factor |-> Mul(factor, Milli), unit |-> "seconds", err |-> FALSE]
            [] suffix = "s" ->
                 [factor |-> Mul(factor, Num(1)), unit |-> "seconds", err |-> FALSE]
            [] suffix = "min" ->
                 [factor |-> Mul(factor, Num(60)), unit |-> "seconds", err |-> FALSE]
            [] suffix = "h" ->
                 [factor |-> Mul(Mul(factor, Num(60)), Num(60)),
                  unit |-> "seconds", err |-> FALSE]
            [] suffix = "d" ->
                 [factor |-> Mul(Mul(Mul(factor, Num(60)), Num(60)), Num(24)),
                  unit |-> "seconds", err |-> FALSE]
            [] OTHER -> failed0

\* A faulty newPostgresSetting that applies no factor.
ApplyFactorNever(v, factor) == v

\* Apply factor only to positive setting values.
ApplyFactor(v, factor) == IF v.num >= 0 THEN Mul(v, factor) ELSE v

\* postgresSetting{}
EmptySetting ==
  [name |-> "", unit |-> "", vartype |-> "", value |-> Num(0), err |-> TRUE]

newPostgresSetting(name, setting, unit, vartype) ==
  CASE vartype \in {"enum", "string"} ->
         [name |-> name, unit |-> String(unit), vartype |-> vartype,
          value |-> Num(0), err |-> FALSE]
    [] vartype = "bool" ->
         IF setting = <<"o", "f", "f">>
         THEN [name |-> name, unit |-> String(unit), vartype |-> vartype,
               value |-> Num(0), err |-> FALSE]
         ELSE IF setting = <<"o", "n">>
         THEN [name |-> name, unit |-> String(unit), vartype |-> vartype,
               value |-> Num(1), err |-> FALSE]
         ELSE EmptySetting
    [] vartype \in {"integer", "real"} ->
         IF parseUnit(unit).err \/ ParseFloat(setting).err THEN EmptySetting
         ELSE [name |-> name, unit |-> parseUnit(unit).unit, vartype |-> vartype,
               value |-> ApplyFactor(ParseFloat(setting).val,
                                     parseUnit(unit).factor),
               err |-> FALSE]
    [] OTHER -> EmptySetting

\* The setting texts tried, each with the number it denotes (if one).
RawSettings ==
  { [text |-> <<"0">>, numeric |-> TRUE, val |-> Num(0)],
    [text |-> <<"1">>, numeric |-> TRUE, val |-> Num(1)],
    [text |-> <<"2", "5", "6">>, numeric |-> TRUE, val |-> Num(256)],
    [text |-> <<"1", "5", "0", "0">>, numeric |-> TRUE, val |-> Num(1500)],
    [text |-> <<"0", ".", "5">>, numeric |-> TRUE,
     val |-> [num |-> 1, den |-> 2, exp2 |-> 0]],
    [text |-> <<"-", "1">>, numeric |-> TRUE, val |-> Num(-1)],
    [text |-> <<"o", "n">>, numeric |-> FALSE, val |-> Num(0)],
    [text |-> <<"o", "f", "f">>, numeric |-> FALSE, val |-> Num(0)] }

\* The units tried, each with the documented factor and canonical unit (if it
\* is a unit of the table).
UnitTexts ==
  { [text |-> <<>>, known |-> FALSE, factor |-> Num(1), canon |-> ""],
    [text |-> <<"B">>, known |-> TRUE, factor |-> Num(1), canon |-> "bytes"],
    [text |-> <<"k", "B">>, known |-> TRUE,
     factor |-> [num |-> 1, den |-> 1, exp2 |-> 10], canon |-> "bytes"],
    [text |-> <<"8", "k", "B">>, known |-> TRUE,
     factor |-> [num |-> 8, den |-> 1, exp2 |-> 10], canon |-> "bytes"],
    [text |-> <<"M", "B">>, known |-> TRUE,
     factor |-> [num |-> 1, den |-> 1, exp2 |-> 20], canon |-> "bytes"],
    [text |-> <<"1", "6", "M", "B">>, known |-> TRUE,
     factor |-> [num |-> 16, den |-> 1, exp2 |-> 20], canon |-> "bytes"],
    [text |-> <<"G", "B">>, known |-> TRUE,
     factor |-> [num |-> 1, den |-> 1, exp2 |-> 30], canon |-> "bytes"],
    [text |-> <<"T", "B">>, known |-> TRUE,
     factor |-> [num |-> 1, den |-> 1, exp2 |-> 40], canon |-> "bytes"],
    [text |-> <<"m", "s">>, known |-> TRUE,
     factor |-> [num |-> 1, den |-> 1000, exp2 |-> 0], canon |-> "seconds"],
    [text |-> <<"s">>, known |-> TRUE, factor |-> Num(1), canon |-> "seconds"],
    [text |-> <<"m", "i", "n">>, known |-> TRUE,
     factor |-> Num(60), canon |-> "seconds"],
    [text |-> <<"h">>, known |-> TRUE, factor |-> Num(3600), canon |-> "seconds"],
    [text |-> <<"d">>, known |-> TRUE, factor |-> Num(86400), canon |-> "seconds"],
    [text |-> <<"K", "B">>, known |-> FALSE, factor |-> Num(1), canon |-> ""],
    [text |-> <<"8", "%">>, known |-> FALSE, factor |-> Num(1), canon |-> ""] }

VarTypes == {"integer", "real", "bool", "enum", "string", "other"}

\* One row of pg_show_all_settings() goes through newPostgresSetting.
NewSetting ==
  /\ \E raw \in RawSettings, unit \in UnitTexts, vartype \in VarTypes :
       pgs' = [called |-> TRUE, raw |-> raw, unit |-> unit, vartype |-> vartype,
               out |-> newPostgresSetting("work_mem", raw.text, unit.text,
                                          vartype)]
  /\ UNCHANGED <<notPure, sink>>

NextSettings == NewSetting

SpecSettings == Init /\ [][NextSettings]_vars

\* ------------------------------------------------- metric points and the sink
\* A column of a result row is a sql.NullString: its text and its Valid flag.
NullCell == [str |-> <<>>, valid |-> FALSE]

Cell(s) == [str |-> s, valid |-> TRUE]

Contains(list, s) == \E i \in 1..Len(list) : list[i] = s

RECURSIVE Flatten(_)
Flatten(ss) == IF ss = <<>> THEN <<>> ELSE Head(ss) \o Flatten(Tail(ss))

RowsUpTo(S) == UNION {[1..k -> S] : k \in 0..MaxRows}

\* Two descriptors of the registry executed by getDBStat, in registry order,
\* and the path-probe descriptors served by getPostgresDirInfo.
SinkDescs ==
  << [Name |-> "pg_stat_database", LabelNames |-> <<"datid", "datname">>],
     [Name |-> "pg_stat_bgwriter", LabelNames |-> <<>>] >>

DirDescs ==
  { [Name |-> n, LabelNames |-> <<"device", "mountpoint", "path">>] :
      n \in {"pg_data_directory", "pg_wal_directory", "pg_log_directory"} }

\* labelValues: one entry per label name, filled from the column of that name.
labelValuesPresent(desc, colnames, cells) ==
  LET present == SelectSeq(desc.LabelNames, LAMBDA l : Contains(colnames, l))
  IN [i \in 1..Len(present) |->
        String(cells[CHOOSE idx \in 1..Len(colnames) :
                       colnames[idx] = present[i]].str)]

labelValues(desc, colnames, cells) ==
  [i \in 1..Len(desc.LabelNames) |->
     LET idxs == {idx \in 1..Len(colnames) : colnames[idx] = desc.LabelNames[i]}
     IN IF idxs = {} THEN ""
        ELSE String(cells[CHOOSE idx \in idxs : \A o \in idxs : o <= idx].str)]

\* The body of getDBStat's column loop for column c of row r of descriptor d.
ColumnPoints(d, colnames, row, r, c) ==
  LET desc == SinkDescs[d]
      parsed == ParseFloat(row.cells[c].str)
  IN IF Contains(desc.LabelNames, colnames[c]) THEN <<>>
     ELSE IF row.cells[c].str = <<>> THEN <<>>
     ELSE IF parsed.err THEN <<>>
     ELSE << [name |-> desc.Name \o "_" \o colnames[c], value |-> parsed.val,
              labels |-> labelValues(desc, colnames, row.cells),
              desc |-> d, row |-> r, col |-> c] >>

\* One rows.Next(): a row that fails to scan is skipped.
RowPoints(d, colnames, row, r) ==
  IF row.scanErr THEN <<>>
  ELSE Flatten([c \in 1..Len(colnames) |-> ColumnPoints(d, colnames, row, r, c)])

\* getDBStat's loop over the descriptors and over the rows of each result.
getDBStatRows(results) ==
  Flatten([d \in 1..Len(SinkDescs) |->
    Flatten([r \in 1..Len(results[d].rows) |->
      RowPoints(d, results[d].colnames, results[d].rows[r], r)])])

\* The query results tried: with and without the label column, NULL values,
\* unparsable text, rows that fail to scan.
DatabaseResults ==
  { [colnames |-> <<"datname", "xact_commit", "blks_read">>, rows |-> rows] :
      rows \in RowsUpTo({ [cells |-> <<l, v, w>>, scanErr |-> e] :
                 l \in {Cell(<<"a">>), Cell(<<"b">>)},
                 v \in {NullCell, Cell(<<"7">>), Cell(<<"x">>)},
                 w \in {NullCell, Cell(<<"3">>)}, e \in BOOLEAN }) }
  \cup
  { [colnames |-> <<"xact_commit", "blks_read">>, rows |-> rows] :
      rows \in RowsUpTo({ [cells |-> <<v, w>>, scanErr |-> e] :
                 v \in {NullCell, Cell(<<"7">>), Cell(<<"x">>)},
                 w \in {NullCell, Cell(<<"3">>)}, e \in BOOLEAN }) }

BgwriterResults ==
  { [colnames |-> <<"checkpoints_timed">>, rows |-> rows] :
      rows \in RowsUpTo({ [cells |-> <<v>>, scanErr |-> FALSE] :
                 v \in {NullCell, Cell(<<"7">>)} }) }

CallGetDBStat ==
  /\ ~sink.called
  /\ \E r1 \in DatabaseResults, r2 \in BgwriterResults :
       sink' = [called |-> TRUE, who |-> "getDBStat", input |-> <<r1, r2>>,
                points |-> getDBStatRows(<<r1, r2>>)]
  /\ UNCHANGED <<notPure, pgs>>

\* getPostgresDirInfo: one point labelled device, mountpoint and path, or an
\* error before any point.
getPostgresDirInfo(desc, outcome) ==
  CASE outcome = "err" -> <<>>
    [] outcome = "mount" ->
         << [name |-> desc.Name, value |-> Num(1),
             labels |-> <<"sda1", "/data", "/data/pgdata">>,
             desc |-> 0, row |-> 0, col |-> 0] >>
    [] outcome = "root" ->
         << [name |-> desc.Name, value |-> Num(1),
             labels |-> <<"sda1", "/", "/pgdata">>,
             desc |-> 0, row |-> 0, col |-> 0] >>

CallDirInfo ==
  /\ ~sink.called
  /\ \E desc \in DirDescs, outcome \in {"err", "mount", "root"} :
       sink' = [called |-> TRUE, who |-> "getPostgresDirInfo", input |-> desc,
                points |-> getPostgresDirInfo(desc, outcome)]
  /\ UNCHANGED <<notPure, pgs>>

\* ------------------------------------------- the postgres databases collector
DatabaseColnames == <<"database", "xact_commit", "xact_rollback">>

DatabaseLabelNames == <<"database">>

EmptyStat == [database |-> "", xactcommit |-> Num(0), xactrollback |-> Num(0),
              row |-> 0]

\* The value of column name in a row: the zero of the struct unless the cell is
\* valid and parses.
StatValue(colnames, row, name, zero) ==
  LET idxs == {i \in 1..Len(colnames) :
                 /\ colnames[i] = name
                 /\ ~Contains(DatabaseLabelNames, colnames[i])
                 /\ row[i].valid
                 /\ ~ParseFloat(row[i].str).err}
  IN IF idxs = {} THEN zero
     ELSE ParseFloat(row[CHOOSE i \in idxs : \A o \in idxs : o <= i].str).val

\* parsePostgresDatabasesStats after the first n rows: a map keyed by the
\* database name, a later row of the same name replacing the earlier one.
RECURSIVE parsePostgresDatabasesStats(_, _, _)
parsePostgresDatabasesStats(colnames, rows, n) ==
  IF n = 0 THEN << >>
  ELSE LET stats == parsePostgresDatabasesStats(colnames, rows, n - 1)
           row == rows[n]
           dbs == {i \in 1..Len(colnames) : colnames[i] = "database"}
           database == IF dbs = {} THEN ""
                       ELSE String(row[CHOOSE i \in dbs : \A o \in dbs : o <= i].str)
           stat == [database |-> database,
                    xactcommit |-> StatValue(colnames, row, "xact_commit", Num(0)),
                    xactrollback |-> StatValue(colnames, row, "xact_rollback", Num(0)),
                    row |-> n]
       IN [k \in DOMAIN stats \cup {database} |->
             IF k = database THEN stat ELSE stats[k]]

\* parsePostgresXidLimitStats: a value that does not parse leaves the zero.
XidNames == <<"database", "prepared_xacts", "replication_slots">>

parsePostgresXidLimitStats(cells) ==
  [i \in 1..Len(XidNames) |->
     IF ParseFloat(cells[i].str).err THEN Num(0) ELSE ParseFloat(cells[i].str).val]

\* The orders in which a range over the map may visit its keys.
MapOrders(m) ==
  {o \in [1..Cardinality(DOMAIN m) -> DOMAIN m] :
     \A i, j \in DOMAIN o : i # j => o[i] # o[j]}

\* The loop of Update over the stats and the three xid limit points after it.
UpdatePoints(stats, order, xid) ==
  Flatten([i \in 1..Len(order) |->
    LET stat == stats[order[i]]
    IN << [name |-> "postgres_database_xact_commits_total",
           value |-> stat.xactcommit, labels |-> <<stat.database>>,
           desc |-> 1, row |-> stat.row, col |-> 2],
          [name |-> "postgres_database_xact_rollbacks_total",
           value |-> stat.xactrollback, labels |-> <<stat.database>>,
           desc |-> 2, row |-> stat.row, col |-> 3] >>])
  \o [i \in 1..Len(XidNames) |->
        [name |-> "postgres_xacts_left_before_wraparound", value |-> xid[i],
         labels |-> <<"pg_" \o XidNames[i]>>, desc |-> 3, row |-> i, col |-> 2]]

\* pg_stat_database has one row for a database name.
DatabaseRows ==
  { rows \in RowsUpTo({ <<l, v, w>> : l \in {Cell(<<"a">>), Cell(<<"b">>)},
                                      v \in {NullCell, Cell(<<"7">>)},
                                      w \in {NullCell, Cell(<<"3">>)} }) :
      \A i, j \in 1..Len(rows) : i # j => rows[i][1] # rows[j][1] }

XidCells == [1..3 -> {NullCell, Cell(<<"9">>)}]

Update ==
  /\ ~sink.called
  /\ \E rows \in DatabaseRows, xid \in XidCells :
       LET stats == parsePostgresDatabasesStats(DatabaseColnames, rows, Len(rows))
       IN \E order \in MapOrders(stats) :
            sink' = [called |-> TRUE, who |-> "Update",
                     input |-> [rows |-> rows, xid |-> xid, order |-> order],
                     points |-> UpdatePoints(stats, order,
                                             parsePostgresXidLimitStats(xid))]
  /\ UNCHANGED <<notPure, pgs>>

\* -------------------------------------------- the postgres settings collector
\* The rows of pg_show_all_settings() tried: rows that normalize, a bool that
\* is neither on nor off, an unknown vartype, an unknown unit suffix, text for
\* a number, and a row short of a column.
SettingRows ==
  { [cols |-> 4, name |-> "work_mem", setting |-> <<"2", "5", "6">>,
     unit |-> <<"k", "B">>, vartype |-> "integer"],
    [cols |-> 4, name |-> "fsync", setting |-> <<"o", "n">>,
     unit |-> <<>>, vartype |-> "bool"],
    [cols |-> 4, name |-> "fsync", setting |-> <<"m", "a", "y">>,
     unit |-> <<>>, vartype |-> "bool"],
    [cols |-> 4, name |-> "port", setting |-> <<"1">>,
     unit |-> <<>>, vartype |-> "other"],
    [cols |-> 4, name |-> "work_mem", setting |-> <<"1">>,
     unit |-> <<"8", "%">>, vartype |-> "integer"],
    [cols |-> 4, name |-> "work_mem", setting |-> <<"o", "n">>,
     unit |-> <<"k", "B">>, vartype |-> "integer"],
    [cols |-> 3, name |-> "port", setting |-> <<"1">>,
     unit |-> <<>>, vartype |-> ""] }

\* parsePostgresSettings: a row without four columns is skipped; the result of
\* newPostgresSetting is appended whether or not it came with an error.
parsePostgresSettings(rows) ==
  Flatten([r \in 1..Len(rows) |->
    IF rows[r].cols # 4 THEN << >>
    ELSE << [row |-> r,
             s |-> newPostgresSetting(rows[r].name, rows[r].setting,
                                      rows[r].unit, rows[r].vartype)] >>])

\* Update of the settings collector: one point per entry of the list.  The
\* setting label, the formatted text of the value, is left out.
UpdateSettings ==
  /\ ~sink.called
  /\ \E rows \in RowsUpTo(SettingRows) :
       LET settings == parsePostgresSettings(rows)
       IN sink' = [called |-> TRUE, who |-> "parsePostgresSettings",
                   input |-> rows,
                   points |-> [i \in 1..Len(settings) |->
                     [name |-> "postgres_service_settings",
                      value |-> settings[i].s.value,
                      labels |-> <<settings[i].s.name, settings[i].s.unit,
                                   settings[i].s.vartype, "main">>,
                      desc |-> 1, row |-> settings[i].row, col |-> 2]]]
  /\ UNCHANGED <<notPure, pgs>>

\* The registry drains the channel when the collect call returns.
SinkDrain ==
  /\ sink.called
  /\ sink' = [called |-> FALSE]
  /\ UNCHANGED <<notPure, pgs>>

NextSink ==
  CallGetDBStat \/ CallDirInfo \/ Update \/ UpdateSettings \/ SinkDrain

SpecSink == Init /\ [][NextSink]_vars

\* ------------------------------------------------------------- RunBootstrap
bootstrapFailed == 1

bootstrapSuccessful == 0

BootSteps ==
  <<"preCheck", "newBootstrapConfig", "installBin", "createEnvironmentFile",
    "createSystemdUnit", "reloadSystemd", "enableAutostart", "runAgent",
    "deleteSelf">>

\* What the host answers to each step: the bootstrap key, systemd, the user,
\* the files and the systemctl commands.
BootEnvs ==
  [emptyKey : BOOLEAN, systemd : BOOLEAN, root : BOOLEAN, decodeOk : BOOLEAN,
   autoStart : BOOLEAN, copyOk : BOOLEAN, closeOk : BOOLEAN,
   envFileOk : BOOLEAN, unitOk : BOOLEAN, reloadOk : BOOLEAN,
   enableOk : BOOLEAN, startOk : BOOLEAN, removeOk : BOOLEAN]

\* The step returns a nil error.  A failed Close is logged and ignored.
StepOk(env, step) ==
  CASE step = "preCheck" -> ~env.emptyKey /\ env.systemd /\ env.root
    [] step = "newBootstrapConfig" -> env.decodeOk
    [] step = "installBin" -> env.copyOk
    [] step = "createEnvironmentFile" -> env.envFileOk
    [] step = "createSystemdUnit" -> env.unitOk
    [] step = "reloadSystemd" -> env.reloadOk
    [] step = "enableAutostart" -> env.enableOk
    [] step = "runAgent" -> env.startOk
    [] step = "deleteSelf" -> env.removeOk

\* The names the agent binary may have (Config.BootstrapBinaryName).
BinaryNames == {"weaponry-agent", "pgscv"}

\* fmt.Sprintf("/etc/environment.d/%s.conf", config.AgentBinaryName)
EnvFilePath(name) == "/etc/environment.d/" \o name \o ".conf"

\* The EnvironmentFile= line of unitTemplate rendered for the name.
UnitEnvironmentFile(name) == "/etc/environment.d/weaponry-agent.conf"

\* A faulty bootstrap that removes ./<name> once it is copied.
RemovesSelfEarly(step) == step = "installBin"

\* The step that calls os.Remove on the source executable.
RemovesSelf(step) == step = "deleteSelf"

\* What a step that returned nil has left on the host.
StepEffect(fs, step) ==
  [fs EXCEPT
     !.envFile = IF step = "createEnvironmentFile" THEN EnvFilePath(fs.name) ELSE @,
     !.unitEnvFile = IF step = "createSystemdUnit"
                     THEN UnitEnvironmentFile(fs.name) ELSE @,
     !.started = IF step = "runAgent" THEN TRUE ELSE @,
     !.self = IF RemovesSelf(step) THEN FALSE ELSE @]

RunBootstrap ==
  /\ bootPc = "init"
  /\ \E env \in BootEnvs : bootEnv' = env
  /\ \E name \in BinaryNames : bootFs' = [bootFs EXCEPT !.name = name]
  /\ bootPc' = "preCheck"
  /\ UNCHANGED <<bootRet, bootRan, notBoot>>

\* if err := step(); err != nil { return bootstrapFailed(err) }
BootStep(step, next) ==
  /\ bootPc = step
  /\ bootRan' = Append(bootRan, step)
  /\ IF StepOk(bootEnv, step)
     THEN /\ bootPc' = next
          /\ bootRet' = IF next = "returned" THEN bootstrapSuccessful ELSE bootRet
     ELSE /\ bootPc' = "returned"
          /\ bootRet' = bootstrapFailed
  /\ bootFs' = IF StepOk(bootEnv, step) THEN StepEffect(bootFs, step) ELSE bootFs
  /\ UNCHANGED <<bootEnv, notBoot>>

AfterReloadAlways == "enableAutostart"

\* if config.AutoStart { enableAutostart }
AfterReload == IF bootEnv.autoStart THEN "enableAutostart" ELSE "runAgent"

preCheck == BootStep("preCheck", "newBootstrapConfig")

newBootstrapConfig == BootStep("newBootstrapConfig", "installBin")

installBin == BootStep("installBin", "createEnvironmentFile")

createEnvironmentFile == BootStep("createEnvironmentFile", "createSystemdUnit")

createSystemdUnit == BootStep("createSystemdUnit", "reloadSystemd")

reloadSystemd == BootStep("reloadSystemd", AfterReload)

enableAutostart == BootStep("enableAutostart", "runAgent")

runAgent == BootStep("runAgent", "deleteSelf")

deleteSelf == BootStep("deleteSelf", "returned")

NextBoot ==
  \/ RunBootstrap
  \/ preCheck
  \/ newBootstrapConfig
  \/ installBin
  \/ createEnvironmentFile
  \/ createSystemdUnit
  \/ reloadSystemd
  \/ enableAutostart
  \/ runAgent
  \/ deleteSelf

SpecBoot == Init /\ [][NextBoot]_vars

\* ------------------------------------- Collect over the global Instances list
\* for i := range Instances evaluates len(Instances) once; the body reads
\* Instances[i] from the global again on every iteration.
CollectBegin ==
  /\ scan.pc = "idle"
  /\ \E e \in Discoverable :
       scan' = [pc |-> "loop", exporter |-> e, n |-> Len(instList), i |-> 1,
                seen |-> << >>, stable |-> {instList[k] : k \in 1..Len(instList)}]
  /\ UNCHANGED <<instList, notRepo>>

CollectIter ==
  /\ scan.pc = "loop"
  /\ scan.i <= scan.n
  /\ IF scan.i > Len(instList)
     THEN scan' = [scan EXCEPT !.pc = "panic"]
     ELSE scan' = [scan EXCEPT
                     !.i = @ + 1,
                     !.seen = IF instList[scan.i] = scan.exporter
                              THEN Append(@, instList[scan.i]) ELSE @]
  /\ UNCHANGED <<instList, notRepo>>

CollectEnd ==
  /\ scan.pc = "loop"
  /\ scan.i > scan.n
  /\ scan' = [scan EXCEPT !.pc = "done"]
  /\ UNCHANGED <<instList, notRepo>>

\* The next scrape: the HTTP server outlives a handler that panicked.
CollectAgain ==
  /\ scan.pc \in {"done", "panic"}
  /\ scan' = [pc |-> "idle"]
  /\ UNCHANGED <<instList, notRepo>>

StableAfter(list) ==
  IF scan.pc = "loop"
  THEN [scan EXCEPT !.stable = @ \cap {list[k] : k \in 1..Len(list)}]
  ELSE scan

\* Background discovery appends a service it has found.
DiscoveryAdd ==
  /\ \E s \in Discoverable :
       /\ \A k \in 1..Len(instList) : instList[k] # s
       /\ instList' = Append(instList, s)
       /\ scan' = StableAfter(instList')
  /\ UNCHANGED notRepo

\* A service is removed on an explicit removal signal.
DiscoveryRemove ==
  /\ \E s \in Discoverable :
       /\ \E k \in 1..Len(instList) : instList[k] = s
       /\ instList' = SelectSeq(instList, LAMBDA x : x # s)
       /\ scan' = StableAfter(instList')
  /\ UNCHANGED notRepo

NextRepo ==
  \/ CollectBegin
  \/ CollectIter
  \/ CollectEnd
  \/ CollectAgain
  \/ DiscoveryAdd
  \/ DiscoveryRemove

SpecRepo == Init /\ [][NextRepo]_vars

\* ------------------------------------------------------------------- claims
\* A round of a relational or pooler service that is past its probe.
InRound(p) == rnd[p].pc \in {"reset", "dbloop", "sched"}

\* C1: in one round of a relational service every descriptor with
\* collectOneshot is executed at most once, whatever the outcome of an
\* execution and however many databases are in the list.
C1_OneshotAtMostOnce ==
  \A p \in Procs : \A d \in Descs :
     rnd[p].itype = stypePostgresql /\ statdesc[d].collectOneshot
       => rnd[p].execCnt[d] <= 1

C3_CadencePerService ==
  \A p \in Procs : \A d \in Descs :
     /\ InRound(p)
     /\ IsScheduleActive(statdesc[d])
     /\ StatDescInit[d].Stype = rnd[p].itype
     /\ d \notin rnd[p].due
     => firedBy[d] = rnd[p].svc

\* C4: in every round of a relational service a version-sensitive descriptor
\* is executed with the variant of the version read at the top of the round,
\* and is enabled or disabled as that version asks, whatever earlier rounds did.
C4_VariantOfRoundVersion ==
  \A p \in Procs : \A d \in Descs :
     InRound(p) /\ rnd[p].itype = stypePostgresql
       => /\ rnd[p].execCnt[d] >= 1
               => statdesc[d].Query =
                    adjustQueries(StatDescInit, rnd[p].version)[d].Query
          /\ statdesc[d].Stype =
               adjustQueries(StatDescInit, rnd[p].version)[d].Stype

\* C5: a round of a relational service whose list of user databases is empty
\* still executes every due oneshot descriptor exactly once.
C5_EmptyListOneshotOnce ==
  \A p \in Procs : \A d \in Descs :
     /\ rnd[p].pc = "sched"
     /\ rnd[p].itype = stypePostgresql
     /\ rnd[p].dblist = <<>>
     /\ d \in rnd[p].due
     /\ statdesc[d].collectOneshot
     /\ statdesc[d].Stype = stypePostgresql
     => rnd[p].execCnt[d] = 1

\* C6: when two rounds run interleaved, no round finds a oneshot descriptor
\* marked done by the other one, and no round collects a oneshot descriptor a
\* second time because the other one cleared the done flags.
C6_InterleavedOneshotOnce ==
  \A p \in Procs : \A d \in Descs :
     statdesc[d].collectOneshot
       => /\ rnd[p].okCnt[d] <= 1
          /\ rnd[p].pc = "dbloop" /\ statdesc[d].collectDone
               => rnd[p].okCnt[d] >= 1

\* C7: every connection opened during a round is closed when the opening
\* function has returned, on every exit path.
C7_ConnectionsClosed ==
  \A p \in Procs : rnd[p].pc = "idle" => ~rnd[p].conn

\* C8: a failed push never aborts the tick or the loop: whatever failed, the
\* services still to visit are exactly the unvisited ones of the tick, every
\* service of the tick has been pushed when pushMetrics returns, and after a
\* failure runPushMode returns only on cancellation, with nil.
C8_FailedPushDoesNotAbort ==
  /\ pushPc = "push" => todo = {s \in snapshot : attempts[s] = 0}
  /\ pushPc = "select" => \A s \in snapshot : attempts[s] = 1
  /\ (failed # {} \/ failedBefore) /\ pushPc = "returned"
       => retVal = "nil" /\ cancelled

\* C8, the case: a tick after a tick with a failed push has run to its end,
\* with a push failing in it and another service pushed after that.
C8_TickAfterFailedPush ==
  /\ pushPc = "select"
  /\ failedBefore
  /\ afterFail
  /\ Cardinality(snapshot) >= 2

\* C9: in every tick exactly one push is attempted for each service of the
\* repository, and every push of every tick carries the job label
\* db_system_<identity>_<ServiceID> with the one identity computed before the
\* first tick, so different services never share a job label.
C9_OnePushPerServiceLabelled ==
  /\ \A s \in ServiceIDs :
       attempts[s] <= 1 /\ (attempts[s] = 1 => s \in snapshot)
  /\ pushPc = "select" => \A s \in snapshot : attempts[s] = 1
  /\ \A x \in pushed : x[2] = "db_system_" \o jobLabelBase \o "_" \o x[1]
  /\ \A x, y \in pushed : x[1] # y[1] => x[2] # y[2]

\* C9, the case: a second tick over several services is complete, after a tick
\* in which a push failed.
C9_SecondTickPushed ==
  /\ pushPc = "select"
  /\ failedBefore
  /\ Cardinality(pushed) >= 2
  /\ Cardinality({s \in snapshot : attempts[s] = 1}) >= 2

\* C10: if the context is cancelled while runPushMode is in its loop (the job
\* label base is computed), runPushMode eventually returns nil, and it returns
\* only when the pushMetrics call in flight has visited all its services.
C10_CancelReturnsNil ==
  /\ (cancelled /\ pushPc \in {"tick", "push", "select"})
       ~> (pushPc = "returned" /\ retVal = "nil")
  /\ [](pushPc = "returned" /\ retVal = "nil"
          => todo = {} /\ \A s \in snapshot : attempts[s] = 1)

\* C10, the case: the context was cancelled in the middle of a pushMetrics
\* call over some services, and runPushMode has returned nil.
C10_CancelledMidTick ==
  /\ cancelledAt = "push"
  /\ snapshot # {}
  /\ pushPc = "returned"
  /\ retVal = "nil"

\* C11: once the context is cancelled the push loop starts no further tick:
\* when the cancellation came during a pushMetrics call or during the select
\* after it, no pushMetrics call is about to start any more.
C11_NoTickAfterCancel ==
  cancelledAt \in {"push", "select"} => pushPc # "tick"

\* C12: in pull mode, once the context is cancelled the HTTP server accepts no
\* new scrape.
C12_PullStopsOnCancel == ~lateScrape

\* C13: a failure of the discovery pass at startup is not fatal: the background
\* loops are started and Start does not return the error.
C13_DiscoveryFailureNotFatal ==
  discovered = "failed" => bgLoops /\ startRet # "err"

\* C14: a collection round never requests the removal of a service: nothing is
\* sent on the removal channel.
C14_NoRemovalRequest ==
  \A p \in Procs : rnd[p].sent = "none"

\* Two numbers are the same.
SameNumber(a, b) == a.exp2 = b.exp2 /\ a.num * b.den = b.num * a.den

\* The call was for a numeric setting of vartype integer or real with a unit of
\* the documented table.
UnitCase ==
  /\ pgs.called
  /\ pgs.vartype \in {"integer", "real"}
  /\ pgs.unit.known
  /\ pgs.raw.numeric

\* C15, as stated: for every raw value the value returned is the raw value
\* times the unit factor, with the canonical unit.
C15_ValueTimesFactor ==
  UnitCase =>
    /\ ~pgs.out.err
    /\ pgs.out.unit = pgs.unit.canon
    /\ SameNumber(pgs.out.value, Mul(pgs.raw.val, pgs.unit.factor))

\* C15, amended: for every raw value that is not negative the value returned
\* is the raw value times the unit factor; a negative raw value is returned as
\* it is; in both cases with the canonical unit.  (256, MB) gives 268435456
\* bytes and (1500, ms) gives 1.5 seconds.
C15_NonNegativeTimesFactor ==
  UnitCase =>
    /\ ~pgs.out.err
    /\ pgs.out.unit = pgs.unit.canon
    /\ pgs.raw.val.num >= 0
         => SameNumber(pgs.out.value, Mul(pgs.raw.val, pgs.unit.factor))
    /\ pgs.raw.val.num < 0 => SameNumber(pgs.out.value, pgs.raw.val)
    /\ pgs.raw.text = <<"2", "5", "6">> /\ pgs.unit.text = <<"M", "B">>
         => /\ pgs.out.value.num * (2 ^ pgs.out.value.exp2)
                 = 268435456 * pgs.out.value.den
            /\ pgs.out.unit = "bytes"
    /\ pgs.raw.text = <<"1", "5", "0", "0">> /\ pgs.unit.text = <<"m", "s">>
         => /\ pgs.out.value.exp2 = 0
            /\ 2 * pgs.out.value.num = 3 * pgs.out.value.den
            /\ pgs.out.unit = "seconds"

\* C15, the case: a negative value with a unit of minutes has gone through.
C15_NegativeWithUnit ==
  /\ UnitCase
  /\ pgs.raw.text = <<"-", "1">>
  /\ pgs.unit.text = <<"m", "i", "n">>
  /\ pgs.out.unit = "seconds"
  /\ pgs.out.value.num = -1

\* The cell of the query result a point of the sink was made from.
SourceCell(p) ==
  IF sink.who = "getDBStat" THEN sink.input[p.desc].rows[p.row].cells[p.col]
  ELSE IF p.desc = 3 THEN sink.input.xid[p.row]
  ELSE sink.input.rows[p.row][p.col]

FromRows == sink.called /\ sink.who \in {"getDBStat", "Update"}

\* C16: a value column that is NULL or missing yields no metric point for its
\* (row, column) pair, and the other value columns of the row are still
\* emitted, in getDBStat and in the databases collector.
C16_NullYieldsNoPoint ==
  FromRows =>
    /\ \A i \in 1..Len(sink.points) : SourceCell(sink.points[i]).valid
    /\ sink.who = "getDBStat" =>
         \A d \in 1..Len(SinkDescs) : \A r \in 1..Len(sink.input[d].rows) :
           \A c \in 1..Len(sink.input[d].colnames) :
             LET row == sink.input[d].rows[r]
             IN (/\ ~row.scanErr
                 /\ ~Contains(SinkDescs[d].LabelNames, sink.input[d].colnames[c])
                 /\ row.cells[c].valid
                 /\ ~ParseFloat(row.cells[c].str).err)
                => \E i \in 1..Len(sink.points) :
                     /\ sink.points[i].desc = d
                     /\ sink.points[i].row = r
                     /\ sink.points[i].col = c
    /\ sink.who = "Update" =>
         \A r \in 1..Len(sink.input.rows) : \A c \in {2, 3} :
           sink.input.rows[r][c].valid
             => \E i \in 1..Len(sink.points) :
                  /\ sink.points[i].desc = c - 1
                  /\ sink.points[i].row = r

\* C17: the points of one descriptor reach the sink in the order of the result
\* rows, and in getDBStat the points of different descriptors follow the
\* order of the registry.
C17_RowThenRegistryOrder ==
  FromRows =>
    \A i, j \in 1..Len(sink.points) :
      i < j =>
        /\ sink.points[i].desc = sink.points[j].desc
             => sink.points[i].row <= sink.points[j].row
        /\ sink.who = "getDBStat" => sink.points[i].desc <= sink.points[j].desc

\* C18: every point sent by getDBStat or getPostgresDirInfo carries as many
\* label values as its descriptor declares label names, also when a label
\* column is absent from the query result.
C18_LabelCountMatches ==
  sink.called =>
    \A i \in 1..Len(sink.points) :
      /\ sink.who = "getDBStat"
           => Len(sink.points[i].labels)
                = Len(SinkDescs[sink.points[i].desc].LabelNames)
      /\ sink.who = "getPostgresDirInfo"
           => Len(sink.points[i].labels) = Len(sink.input.LabelNames)

C18_LabelColumnAbsent ==
  /\ sink.called
  /\ sink.who = "getDBStat"
  /\ ~Contains(sink.input[1].colnames, "datname")
  /\ \E i \in 1..Len(sink.points) :
       /\ sink.points[i].desc = 1
       /\ sink.points[i].labels = <<"", "">>

\* The steps RunBootstrap is to run in the environment env, in order.
DueSteps(env) ==
  SelectSeq(BootSteps, LAMBDA s : s # "enableAutostart" \/ env.autoStart)

\* C20: RunBootstrap returns 0 if and only if every step succeeded, the steps
\* running in the fixed order with enableAutostart only under AutoStart; at
\* the first failing step it returns 1 and runs no later step.
C20_BootstrapExitCode ==
  bootPc # "init" =>
    LET due == DueSteps(bootEnv)
    IN /\ Len(bootRan) <= Len(due)
       /\ bootRan = SubSeq(due, 1, Len(bootRan))
       /\ \A i \in 1..(Len(bootRan) - 1) : StepOk(bootEnv, bootRan[i])
       /\ bootPc = "returned" =>
            /\ bootRet \in {0, 1}
            /\ bootRet = 0 <=> \A i \in 1..Len(due) : StepOk(bootEnv, due[i])
            /\ bootRet = 0 => bootRan = due
            /\ bootRet = 1 => ~StepOk(bootEnv, bootRan[Len(bootRan)])

C20_FailedAfterSkippedAutostart ==
  /\ bootPc = "returned"
  /\ bootRet = 1
  /\ ~bootEnv.autoStart
  /\ ~bootEnv.enableOk
  /\ ~bootEnv.closeOk
  /\ bootRan = <<"preCheck", "newBootstrapConfig", "installBin",
                 "createEnvironmentFile", "createSystemdUnit", "reloadSystemd",
                 "runAgent">>

\* C19: the services one Collect processes are a snapshot of the list: a
\* concurrent write by discovery never makes it read past the list, skip a
\* service present before and after the write, or process a service twice.
C19_CollectSeesSnapshot ==
  scan.pc \in {"done", "panic"} =>
    /\ scan.pc = "done"
    /\ scan.exporter \in scan.stable => scan.seen # << >>
    /\ Len(scan.seen) <= 1

\* C21: the environment file createEnvironmentFile writes is the file the unit
\* rendered by createSystemdUnit loads, for every agent binary name.
C21_UnitLoadsWrittenFile ==
  bootFs.envFile # "" /\ bootFs.unitEnvFile # ""
    => bootFs.unitEnvFile = bootFs.envFile

\* C28: the source executable is removed only by deleteSelf, after the agent
\* service was started; a bootstrap that failed before deleteSelf has left it.
C28_SelfDeletedAfterStart ==
  bootPc # "init" =>
    /\ ~bootFs.self =>
         /\ bootFs.started
         /\ bootRan # << >> /\ bootRan[Len(bootRan)] = "deleteSelf"
         /\ bootRet = 0
    /\ bootPc = "returned" /\ bootRet = 1 /\ bootRan[Len(bootRan)] # "deleteSelf"
         => bootFs.self

C28_FailedAfterInstall ==
  /\ bootPc = "returned"
  /\ bootRet = 1
  /\ bootRan[Len(bootRan)] = "runAgent"
  /\ bootFs.envFile # ""
  /\ bootFs.self
  /\ ~bootFs.started

\* /etc/machine-id of the host can be read.
MachineIdRead == hostId.file.exists /\ hostId.file.readable

\* C22: getJobLabelBase returns the trimmed content of /etc/machine-id
\* whenever the file can be read, the hash of the hostname exactly when it
\* cannot and the hostname is available, and an error exactly when both fail;
\* in that case runPushMode returns the error and nothing is pushed.
C22_LabelBaseOrError ==
  hostId.known /\ pushPc # "init" =>
    /\ retVal = "err" <=> ~MachineIdRead /\ hostId.host.err
    /\ MachineIdRead
         => jobLabelBase = String(TrimSpace(hostId.file.content))
    /\ ~MachineIdRead /\ ~hostId.host.err
         => jobLabelBase = Md5Hex(hostId.host.name)
    /\ jobLabelBase = Md5Hex(hostId.host.name)
         => ~MachineIdRead /\ ~hostId.host.err
    /\ retVal = "err"
         => /\ pushPc = "returned"
            /\ pushed = {}
            /\ \A s \in ServiceIDs : attempts[s] = 0

C22_HostnameFallbackPushed ==
  /\ hostId.known
  /\ hostId.file.exists
  /\ ~hostId.file.readable
  /\ ~hostId.host.err
  /\ jobLabelBase = Md5Hex("db1")
  /\ pushed # {}

\* The row of pg_show_all_settings() normalizes.
Normalizes(row) ==
  row.cols = 4
    /\ ~newPostgresSetting(row.name, row.setting, row.unit, row.vartype).err

\* C27: the list parsePostgresSettings returns has one entry for every row
\* that normalizes and none for a row whose normalization fails or that has
\* not four columns, so Update emits no point for such a row.
C27_FailedRowsSkipped ==
  sink.called /\ sink.who = "parsePostgresSettings" =>
    /\ \A i \in 1..Len(sink.points) :
         Normalizes(sink.input[sink.points[i].row])
    /\ \A r \in 1..Len(sink.input) :
         Normalizes(sink.input[r])
           => \E i \in 1..Len(sink.points) : sink.points[i].row = r

\* A descriptor of the type of the round of p that is not oneshot, has a
\* cadence, and was due when the round started.
DuePerDatabase(p, d) ==
  /\ ~statdesc[d].collectOneshot
  /\ statdesc[d].Interval > 0
  /\ statdesc[d].Stype = rnd[p].itype
  /\ d \in rnd[p].due

C24_StampedOnlyAfterLoop ==
  [][ \A d \in Descs :
        statdesc'[d].LastFired # statdesc[d].LastFired
          => \E p \in Procs : rnd[p].pc = "sched" /\ rnd[p].okCnt[d] >= 1
    ]_vars

\* C25: a descriptor whose query failed in a round is not executed again in
\* a later database of that round.
C25_FailedQuerySkipped == hist.again = {}

\* A oneshot descriptor of the type of the round of p, due at its start.
DueOneshot(p, d) ==
  /\ statdesc[d].collectOneshot
  /\ statdesc[d].Stype = rnd[p].itype
  /\ d \in rnd[p].due

C29_ProbeStaysProbe ==
  \A d \in Descs : StatDescInit[d].Query = "" => statdesc[d].Query = ""

\* C30: a round whose probe phase fails (connection, status check, version
\* query) executes no descriptor and leaves the registry as it was.
C30_FailedProbeLeavesRegistry ==
  [][ \A p \in Procs : \A s \in ServiceIDs :
        ProbeConnFail(p, s) \/ ProbeStatusFail(p, s) \/ ProbeVersionFail(p, s)
          => /\ statdesc' = statdesc
             /\ firedBy' = firedBy
             /\ \A d \in Descs : rnd'[p].execCnt[d] = 0
    ]_vars

C30_ProbeFailedAfterRound ==
  /\ rnd[1].pc = "idle"
  /\ rnd[1].conn
  /\ rnd[1].sent = "none"
  /\ \E d \in Descs : statdesc[d].collectDone /\ statdesc[d].LastFired # ZeroTime
  /\ \E d \in Descs : statdesc[d].Query # StatDescInit[d].Query

=============================================================================
